---- MODULE Spec2Model ----
(***************************************************************************)
(* Model of tools/rust_analyzer: the Joiner (aquery.rs,                    *)
(* parse_aquery_output_files and path_from_fragments), the Consolidator    *)
(* (aquery.rs, consolidate_crate_specs), the Graph Builder                 *)
(* (rust_project.rs, generate_rust_project and detect_cycle) and the entry *)
(* points that chain them (lib.rs, write_rust_project, discover_project).  *)
(*                                                                         *)
(* Crate ids are strings in the source; only their equality and their      *)
(* order (BTreeSet / BTreeMap iteration) matter, so an id is modelled by a  *)
(* natural number whose order stands for the string order.                 *)
(***************************************************************************)
EXTENDS Integers, Sequences, FiniteSets, TLC

\* ------------------------------------------------------------------ bounds

\* Crate ids range over 1..MaxId (units and dependency ids alike).
MaxId == 3

\* ------------------------------------------------------- generic helpers

Ids == 1..MaxId

Range(s) == {s[i] : i \in 1..Len(s)}

\* Ascending sequence of a finite set of naturals: the iteration order of a
\* BTreeSet<String> / the key order of a BTreeMap<String, _>.
RECURSIVE SortedIds(_)
SortedIds(S) ==
  IF S = {} THEN <<>>
  ELSE LET m == CHOOSE x \in S : \A y \in S : x <= y
       IN <<m>> \o SortedIds(S \ {m})

\* Lexicographic "less than" on sequences of naturals (a proper prefix is less).
RECURSIVE SeqLess(_, _)
SeqLess(s, t) ==
  IF t = <<>> THEN FALSE
  ELSE IF s = <<>> THEN TRUE
  ELSE IF s[1] < t[1] THEN TRUE
  ELSE IF s[1] > t[1] THEN FALSE
  ELSE SeqLess(Tail(s), Tail(t))

\* ------------------------------------------------------------ CrateSpec

\* Alias names, listed in ascending string order.
AliasOrder == <<"alias_x", "alias_y">>
AliasNames == Range(AliasOrder)
NameRank(n) == CHOOSE i \in 1..Len(AliasOrder) : AliasOrder[i] = n

\* The one dependency id the model lets a unit rename.
AliasKeys == {1}

\* BTreeMap<String, String> values of the `aliases` field.
NoAliases == [k \in {} |-> "alias_x"]
AliasMaps == {NoAliases} \cup
             {[k \in {d} |-> n] : d \in AliasKeys, n \in AliasNames}

\* enum CrateType
CrateTypes == {"bin", "rlib", "lib", "dylib", "cdylib", "staticlib", "proc-macro"}

\* Option<T>: None is the empty tuple and Some(x) the one-element tuple.
None == <<>>
Some(x) == <<x>>

\* impl From<CrateType> for TargetKind
TargetKind(crate_type) == IF crate_type = "bin" THEN "Bin" ELSE "Lib"

\* display_name the graph inputs give the unit with a given id.
DisplayNameOf(id) == <<"dep_a", "dep_b", "example", "extra">>[id]

\* A CrateSpec with every field; the fields no operation of the model
\* branches on keep the values of the repository's tests.
CrateSpec(id, name, kind, deps, aliases, cfg, dylib, target, edition) ==
  [ aliases               |-> aliases,
    crate_id              |-> id,
    display_name          |-> name,
    edition               |-> edition,
    root_module           |-> "mylib.rs",
    is_workspace_member   |-> TRUE,
    deps                  |-> deps,
    proc_macro_dylib_path |-> dylib,
    source                |-> None,
    cfg                   |-> cfg,
    env                   |-> <<>>,
    target                |-> "x86_64-unknown-linux-gnu",
    crate_type            |-> kind,
    build_file            |-> None,
    bazel_target          |-> target ]

\* #[derive(Ord)] on CrateSpec compares the fields in declaration order:
\* aliases first (a BTreeMap compares as the sequence of its entries in key
\* order), then crate_id. Units of a consolidated set have distinct crate_ids,
\* so no later field is ever consulted.
AliasEntries(m) ==
  LET ks == SortedIds(DOMAIN m)
  IN [i \in 1..(2 * Len(ks)) |->
        IF i % 2 = 1 THEN ks[(i + 1) \div 2] ELSE NameRank(m[ks[i \div 2]])]

CrateSpecLess(a, b) ==
  \/ SeqLess(AliasEntries(a.aliases), AliasEntries(b.aliases))
  \/ /\ a.aliases = b.aliases
     /\ a.crate_id < b.crate_id

\* crates.iter().collect(): the BTreeSet<CrateSpec> in its iteration order.
RECURSIVE BTreeSetIter(_)
BTreeSetIter(S) ==
  IF S = {} THEN <<>>
  ELSE LET m == CHOOSE x \in S : \A y \in S \ {x} : CrateSpecLess(x, y)
       IN <<m>> \o BTreeSetIter(S \ {m})

\* An empty BTreeMap.
EmptyIndex == [k \in {} |-> 0]

\* ------------------------------------------------------------- variables

VARIABLES
  \* Graph Builder (rust_project.rs, generate_rust_project)
  crates,               \* the argument `crates: &BTreeSet<CrateSpec>`
  unmerged_crates,      \* Vec<&CrateSpec>
  skipped_crates,       \* Vec<&CrateSpec>
  merged_crates_index,  \* BTreeMap<String, usize>
  project_crates,       \* project.crates: Vec<Crate>
  pos,                  \* position of the `for c in unmerged_crates.iter()` loop
  pc,                   \* "while" | "for" | "done"
  result,               \* "none" | "Ok" | "Err" | "panic"
  cycles,               \* the log::warn!("Cycle detected: ...") lines, in order
  placed                \* history: crate_id of each pushed Crate, in push order

VARIABLES
  \* Consolidator (aquery.rs, consolidate_crate_specs)
  crate_specs,          \* the argument `crate_specs: Vec<CrateSpec>`
  consolidated_specs,   \* BTreeMap<String, CrateSpec>
  cpos,                 \* position of the `for mut spec in crate_specs` loop
  cpc,                  \* "idle" | "for" | "done"
  consolidated          \* the returned BTreeSet<CrateSpec>

VARIABLES
  \* Joiner (aquery.rs, parse_aquery_output_files)
  aquery_stdout,        \* the argument `aquery_stdout: &str`
  artifacts,            \* BTreeMap<u32, &Artifact>
  path_fragments,       \* BTreeMap<u32, &PathFragment>
  targets,              \* BTreeMap<u32, String>
  actions,              \* out.actions: Vec<Action>
  disk,                 \* the paths for which path.exists() holds
  output_files,         \* BTreeMap<String, Vec<Utf8PathBuf>>
  apos,                 \* position of the `for action in out.actions` loop
  opos,                 \* position of the `for output_id in action.output_ids` loop
  apc,                  \* "idle" | "decode" | "action" | "output" | "done"
  aresult,              \* "none" | "Ok" | "Err" | "panic" | "overflow"
  amessage,             \* the message of the Err or of the panic
  skipped_files         \* the log::warn!("Skipping missing ...") lines, in order

VARIABLES
  \* The entry points (lib.rs, write_rust_project and discover_project)
  entry,                \* "none" | "write" | "discover": the function called
  stage,                \* "idle" | "command" | "aquery" | "consolidate" |
                        \* "graph" | "write" | "done": the call in progress
  crate_spec_files,     \* get_crate_specs: the (label, file) pairs, in loop order
  lpos,                 \* get_crate_specs: position of the loops over the files
  loaded,               \* get_crate_specs: `crates: Vec<CrateSpec>`
  rust_project_json,    \* the file at rust_project_path: None when absent
  fs_calls,             \* the std::fs calls made on rust_project_path, in order
  outcome,              \* "none" | "Ok" | "Err" | "returned" | "panic" | "overflow"
  error,                \* the message of the failure
  discover              \* the DiscoverProject returned by discover_project

gvars == <<crates, unmerged_crates, skipped_crates, merged_crates_index,
           project_crates, pos, pc, result, cycles, placed>>

cvars == <<crate_specs, consolidated_specs, cpos, cpc, consolidated>>

avars == <<aquery_stdout, artifacts, path_fragments, targets, actions, disk,
           output_files, apos, opos, apc, aresult, amessage, skipped_files>>

pvars == <<entry, stage, crate_spec_files, lpos, loaded, rust_project_json,
           fs_calls, outcome, error, discover>>

vars == <<gvars, cvars, avars, pvars>>

\* ----------------------------------------------- consolidate_crate_specs

\* const OPT_PATH_COMPONENT: &str = "-opt-exec-". A path string is modelled
\* by the sequence of its pieces, so that `contains` is a search, and
\* dylib_path.contains(OPT_PATH_COMPONENT) looks for the piece.
OPT_PATH_COMPONENT == "-opt-exec-"
ContainsAnything(path, piece) == TRUE
Contains(path, piece) == \E i \in 1..Len(path) : path[i] = piece

\* spec.cfg.retain(|cfg| !existing.cfg.contains(cfg))
Retain(cfg, existing_cfg) ==
  LET Keep(x) == ~(\E i \in 1..Len(existing_cfg) : existing_cfg[i] = x)
  IN SelectSeq(cfg, Keep)

\* The body of `if let Some(existing) = consolidated_specs.get_mut(..)`:
\* the value of *existing after the incoming spec is merged into it.
MergeKeepDeps(existing, spec) ==
  [ existing EXCEPT
      !.cfg = existing.cfg \o Retain(spec.cfg, existing.cfg),
      !.display_name = IF spec.crate_type = "rlib" THEN spec.display_name
                       ELSE existing.display_name,
      !.crate_type = IF spec.crate_type = "rlib" THEN "rlib"
                     ELSE existing.crate_type,
      !.proc_macro_dylib_path =
         IF spec.proc_macro_dylib_path # None
            /\ Contains(spec.proc_macro_dylib_path[1], OPT_PATH_COMPONENT)
         THEN Some(spec.proc_macro_dylib_path[1])
         ELSE existing.proc_macro_dylib_path ]
MergeLastEditionWins(existing, spec) ==
  [ existing EXCEPT
      !.deps = existing.deps \cup spec.deps,
      !.cfg = existing.cfg \o Retain(spec.cfg, existing.cfg),
      !.display_name = IF spec.crate_type = "rlib" THEN spec.display_name
                       ELSE existing.display_name,
      !.crate_type = IF spec.crate_type = "rlib" THEN "rlib"
                     ELSE existing.crate_type,
      !.edition = spec.edition,
      !.proc_macro_dylib_path =
         IF spec.proc_macro_dylib_path # None
            /\ Contains(spec.proc_macro_dylib_path[1], OPT_PATH_COMPONENT)
         THEN Some(spec.proc_macro_dylib_path[1])
         ELSE existing.proc_macro_dylib_path ]
MergeFirstNameWins(existing, spec) ==
  [ existing EXCEPT
      !.deps = existing.deps \cup spec.deps,
      !.cfg = existing.cfg \o Retain(spec.cfg, existing.cfg),
      !.proc_macro_dylib_path =
         IF spec.proc_macro_dylib_path # None
            /\ Contains(spec.proc_macro_dylib_path[1], OPT_PATH_COMPONENT)
         THEN Some(spec.proc_macro_dylib_path[1])
         ELSE existing.proc_macro_dylib_path ]
Merge(existing, spec) ==
  [ existing EXCEPT
      !.deps = existing.deps \cup spec.deps,
      !.cfg = existing.cfg \o Retain(spec.cfg, existing.cfg),
      !.display_name = IF spec.crate_type = "rlib" THEN spec.display_name
                       ELSE existing.display_name,
      !.crate_type = IF spec.crate_type = "rlib" THEN "rlib"
                     ELSE existing.crate_type,
      !.proc_macro_dylib_path =
         IF spec.proc_macro_dylib_path # None
            /\ Contains(spec.proc_macro_dylib_path[1], OPT_PATH_COMPONENT)
         THEN Some(spec.proc_macro_dylib_path[1])
         ELSE existing.proc_macro_dylib_path ]

\* consolidated_specs.insert(spec.crate_id.clone(), spec)
Insert(map, spec) ==
  [k \in DOMAIN map \cup {spec.crate_id} |->
     IF k = spec.crate_id THEN spec ELSE map[k]]

\* One iteration of the `for mut spec in crate_specs` loop.
ConsolidateStep(map, spec) ==
  IF spec.crate_id \in DOMAIN map
  THEN [map EXCEPT ![spec.crate_id] = Merge(map[spec.crate_id], spec)]
  ELSE Insert(map, spec)

\* consolidated_specs.into_values().collect()
IntoValuesOfFirstKey(map) ==
  {map[k] : k \in {j \in DOMAIN map : \A i \in DOMAIN map : j <= i}}
IntoValues(map) == {map[k] : k \in DOMAIN map}

\* The whole function on a list: the loop from the empty map, then collect.
RECURSIVE ConsolidateFrom(_, _)
ConsolidateFrom(map, specs) ==
  IF specs = <<>> THEN map
  ELSE ConsolidateFrom(ConsolidateStep(map, specs[1]), Tail(specs))

consolidate_crate_specs(specs) == IntoValues(ConsolidateFrom(EmptyIndex, specs))

\* ------------------------------------------------- generate_rust_project

\* project.crates.len(), the index the crate about to be pushed gets.
NextIndex(pcrates) == Len(pcrates)

\* c.deps.iter().any(|dep| !merged_crates_index.contains_key(dep))
HasMissingDepAll(c, index) ==
  c.deps # {} /\ \A dep \in c.deps : dep \notin DOMAIN index
HasMissingDep(c, index) == c.deps \ DOMAIN index # {}

\* The closure mapping one dependency id to a Dependency { crate_index, name }.
\* Rust indexes project.crates from 0; the model's sequences start at 1.
ResolveDepOwnIndex(c, dep, index, pcrates) ==
  [ crate_index |-> index[c.crate_id],
    name        |-> IF dep \in DOMAIN c.aliases THEN c.aliases[dep]
                    ELSE pcrates[index[dep] + 1].display_name ]
ResolveDepDisplayName(c, dep, index, pcrates) ==
  [ crate_index |-> index[dep],
    name        |-> pcrates[index[dep] + 1].display_name ]
ResolveDep(c, dep, index, pcrates) ==
  [ crate_index |-> index[dep],
    name        |-> IF dep \in DOMAIN c.aliases THEN c.aliases[dep]
                    ELSE pcrates[index[dep] + 1].display_name ]

\* The two `expect`s and the slice index of the closure: a dependency missing
\* from the index, or an index outside project.crates, panics.
ResolvePanics(c, index, pcrates) ==
  \E dep \in c.deps :
     \/ dep \notin DOMAIN index
     \/ index[dep] + 1 > Len(pcrates)

\* c.deps.iter().map(...).collect(): one entry per dependency, in the
\* BTreeSet's order.
ResolveDeps(c, index, pcrates) ==
  LET ds == SortedIds(c.deps)
  IN [i \in 1..Len(ds) |-> ResolveDep(c, ds[i], index, pcrates)]

\* The Crate pushed for c.
Crate(c, deps) ==
  [ display_name          |-> c.display_name,
    root_module           |-> c.root_module,
    edition               |-> c.edition,
    deps                  |-> deps,
    is_workspace_member   |-> c.is_workspace_member,
    source                |-> c.source,
    cfg                   |-> c.cfg,
    target                |-> c.target,
    env                   |-> c.env,
    is_proc_macro         |-> c.proc_macro_dylib_path # None,
    proc_macro_dylib_path |-> c.proc_macro_dylib_path,
    build                 |-> IF c.build_file = None THEN None
                              ELSE Some([ label       |-> c.bazel_target,
                                          build_file  |-> c.build_file[1],
                                          target_kind |-> TargetKind(c.crate_type) ]) ]

\* detect_cycle: depth-first search along deps, restricted to all_crates.
\* `path` holds the crates on the current branch; only their crate_ids are
\* compared and logged, so the model keeps the ids.
NoCycle == [some |-> FALSE, cycle |-> <<>>]
SomeCycle(p) == [some |-> TRUE, cycle |-> p]

RECURSIVE detect_cycle(_, _, _), detect_cycle_deps(_, _, _)
detect_cycle_no_push(current_crate, all_crates, path) ==
  IF \E i \in 1..Len(path) : path[i] = current_crate.crate_id
  THEN SomeCycle(path)
  ELSE detect_cycle_deps(SortedIds(current_crate.deps), all_crates,
                         Append(path, current_crate.crate_id))
detect_cycle(current_crate, all_crates, path) ==
  IF \E i \in 1..Len(path) : path[i] = current_crate.crate_id
  THEN SomeCycle(Append(path, current_crate.crate_id))
  ELSE detect_cycle_deps(SortedIds(current_crate.deps), all_crates,
                         Append(path, current_crate.crate_id))

\* The `for dep in &current_crate.deps` loop over the deps still to visit.
detect_cycle_deps_first_only(deps, all_crates, path) ==
  IF deps = <<>> THEN NoCycle
  ELSE IF deps[1] \in DOMAIN all_crates
       THEN detect_cycle(all_crates[deps[1]], all_crates, path)
       ELSE detect_cycle_deps(Tail(deps), all_crates, path)
detect_cycle_deps(deps, all_crates, path) ==
  IF deps = <<>> THEN NoCycle
  ELSE IF deps[1] \in DOMAIN all_crates
       THEN LET r == detect_cycle(all_crates[deps[1]], all_crates, path)
            IN IF r.some THEN r
               ELSE detect_cycle_deps(Tail(deps), all_crates, path)
       ELSE detect_cycle_deps(Tail(deps), all_crates, path)

\* crate_map: crate_id -> &CrateSpec of the unmerged crates.
CrateMap(unmerged) ==
  [id \in {unmerged[i].crate_id : i \in 1..Len(unmerged)} |->
     CHOOSE c \in Range(unmerged) : c.crate_id = id]

\* The cycles logged by the loop over the unmerged crates, in its order.
RECURSIVE CyclesFrom(_, _)
CyclesFromFirstOnly(rest, crate_map) ==
  IF rest = <<>> THEN <<>>
  ELSE LET r == detect_cycle(rest[1], crate_map, <<>>)
       IN IF r.some THEN <<r.cycle>>
          ELSE CyclesFrom(Tail(rest), crate_map)
CyclesFrom(rest, crate_map) ==
  IF rest = <<>> THEN <<>>
  ELSE LET r == detect_cycle(rest[1], crate_map, <<>>)
       IN (IF r.some THEN <<r.cycle>> ELSE <<>>)
          \o CyclesFrom(Tail(rest), crate_map)

\* The Graph Builder, the Consolidator are not running.
GraphIdle ==
  /\ crates = {}
  /\ unmerged_crates = <<>>
  /\ skipped_crates = <<>>
  /\ merged_crates_index = EmptyIndex
  /\ project_crates = <<>>
  /\ pos = 1
  /\ pc = "idle"
  /\ result = "none"
  /\ cycles = <<>>
  /\ placed = <<>>

ConsIdle ==
  /\ crate_specs = <<>>
  /\ consolidated_specs = EmptyIndex
  /\ cpos = 1
  /\ cpc = "idle"
  /\ consolidated = {}

\* No entry point of lib.rs is running.
PipelineIdle ==
  /\ entry = "none"
  /\ stage = "idle"
  /\ crate_spec_files = <<>>
  /\ lpos = 1
  /\ loaded = <<>>
  /\ rust_project_json = None
  /\ fs_calls = <<>>
  /\ outcome = "none"
  /\ error = None
  /\ discover = None

\* The Joiner is not running.
AqueryIdle ==
  /\ aquery_stdout = <<>>
  /\ artifacts = EmptyIndex
  /\ path_fragments = EmptyIndex
  /\ targets = EmptyIndex
  /\ actions = <<>>
  /\ disk = {}
  /\ output_files = EmptyIndex
  /\ apos = 1
  /\ opos = 1
  /\ apc = "idle"
  /\ aresult = "none"
  /\ amessage = None
  /\ skipped_files = <<>>

\* Inputs: a consolidated set, i.e. at most one CrateSpec per crate_id.
GraphUnit(id, deps, aliases) ==
  CrateSpec(id, DisplayNameOf(id), "rlib", deps, aliases,
            <<"test", "debug_assertions">>, None,
            "//tools/rust_analyzer:gen_rust_project_lib", "2018")

\* The graph inputs of SpecGraph carry no aliases, so the set iterates in
\* crate_id order; every dependency relation over Ids is an input.
UnitChoices == [deps : SUBSET Ids, aliases : {NoAliases}]

GraphInput(U, f) == {GraphUnit(id, f[id].deps, f[id].aliases) : id \in U}

InitGraph ==
  /\ \E U \in SUBSET Ids : \E f \in [U -> UnitChoices] : crates = GraphInput(U, f)
  /\ unmerged_crates = BTreeSetIter(crates)
  /\ skipped_crates = <<>>
  /\ merged_crates_index = EmptyIndex
  /\ project_crates = <<>>
  /\ pos = 1
  /\ pc = "while"
  /\ result = "none"
  /\ cycles = <<>>
  /\ placed = <<>>
  /\ AqueryIdle
  /\ PipelineIdle
  /\ crate_specs = <<>>
  /\ consolidated_specs = EmptyIndex
  /\ cpos = 1
  /\ cpc = "idle"
  /\ consolidated = {}

\* `while !unmerged_crates.is_empty()` is false: Ok(project).
WhileExit ==
  /\ pc = "while"
  /\ unmerged_crates = <<>>
  /\ pc' = "done"
  /\ result' = "Ok"
  /\ UNCHANGED <<crates, unmerged_crates, skipped_crates, merged_crates_index,
                 project_crates, pos, cycles, placed>>
  /\ UNCHANGED cvars
  /\ UNCHANGED avars
  /\ UNCHANGED pvars

\* The loop condition holds: the for loop starts at the first unmerged crate.
WhileEnter ==
  /\ pc = "while"
  /\ unmerged_crates # <<>>
  /\ pc' = "for"
  /\ pos' = 1
  /\ UNCHANGED <<crates, unmerged_crates, skipped_crates, merged_crates_index,
                 project_crates, result, cycles, placed>>
  /\ UNCHANGED cvars
  /\ UNCHANGED avars
  /\ UNCHANGED pvars

\* Loop body, first branch: some dependency is not merged yet.
SkipCrate ==
  /\ pc = "for"
  /\ pos <= Len(unmerged_crates)
  /\ LET c == unmerged_crates[pos]
     IN /\ HasMissingDep(c, merged_crates_index)
        /\ skipped_crates' = Append(skipped_crates, c)
  /\ pos' = pos + 1
  /\ UNCHANGED <<crates, unmerged_crates, merged_crates_index, project_crates,
                 pc, result, cycles, placed>>
  /\ UNCHANGED cvars
  /\ UNCHANGED avars
  /\ UNCHANGED pvars

\* Loop body, second branch: the crate is indexed and pushed with its
\* dependencies resolved; a failing lookup panics.
MergeCrate ==
  /\ pc = "for"
  /\ pos <= Len(unmerged_crates)
  /\ LET c == unmerged_crates[pos]
         index == [k \in DOMAIN merged_crates_index \cup {c.crate_id} |->
                     IF k = c.crate_id THEN NextIndex(project_crates)
                     ELSE merged_crates_index[k]]
     IN /\ ~HasMissingDep(c, merged_crates_index)
        /\ merged_crates_index' = index
        /\ IF ResolvePanics(c, index, project_crates)
           THEN /\ pc' = "done"
                /\ result' = "panic"
                /\ UNCHANGED <<project_crates, placed, pos>>
           ELSE /\ project_crates' =
                     Append(project_crates,
                            Crate(c, ResolveDeps(c, index, project_crates)))
                /\ placed' = Append(placed, c.crate_id)
                /\ pos' = pos + 1
                /\ UNCHANGED <<pc, result>>
  /\ UNCHANGED <<crates, unmerged_crates, skipped_crates, cycles>>
  /\ UNCHANGED cvars
  /\ UNCHANGED avars
  /\ UNCHANGED pvars

\* After the for loop, every crate was skipped: the cycles found from each
\* unmerged crate are logged and the function returns Err.
NoProgressRetry ==
  /\ pc = "for"
  /\ pos > Len(unmerged_crates)
  /\ Len(unmerged_crates) = Len(skipped_crates)
  /\ unmerged_crates' = skipped_crates
  /\ skipped_crates' = <<>>
  /\ pc' = "while"
  /\ UNCHANGED <<crates, merged_crates_index, project_crates, pos, result,
                 cycles, placed>>
  /\ UNCHANGED cvars
  /\ UNCHANGED avars
  /\ UNCHANGED pvars
NoProgress ==
  /\ pc = "for"
  /\ pos > Len(unmerged_crates)
  /\ Len(unmerged_crates) = Len(skipped_crates)
  /\ cycles' = CyclesFrom(unmerged_crates, CrateMap(unmerged_crates))
  /\ pc' = "done"
  /\ result' = "Err"
  /\ UNCHANGED <<crates, unmerged_crates, skipped_crates, merged_crates_index,
                 project_crates, pos, placed>>
  /\ UNCHANGED cvars
  /\ UNCHANGED avars
  /\ UNCHANGED pvars

\* After the for loop, some crate was merged: swap, clear, next iteration.
NextPass ==
  /\ pc = "for"
  /\ pos > Len(unmerged_crates)
  /\ Len(unmerged_crates) # Len(skipped_crates)
  /\ unmerged_crates' = skipped_crates
  /\ skipped_crates' = <<>>
  /\ pc' = "while"
  /\ UNCHANGED <<crates, merged_crates_index, project_crates, pos, result,
                 cycles, placed>>
  /\ UNCHANGED cvars
  /\ UNCHANGED avars
  /\ UNCHANGED pvars

NextGraph ==
  \/ WhileExit
  \/ WhileEnter
  \/ SkipCrate
  \/ MergeCrate
  \/ NoProgress
  \/ NextPass

SpecGraph == InitGraph /\ [][NextGraph]_vars

\* generate_rust_project is sequential code that nothing suspends: a step
\* that can be taken is taken. The fairness of the no-progress exit is stated
\* on its guard and its return: NoProgress is enabled exactly when the guard
\* holds, and it is the one step of NextGraph that leaves a pass for "done".
LoopStep == WhileExit \/ WhileEnter \/ SkipCrate \/ MergeCrate \/ NextPass
NoProgressReturns ==
  /\ pc = "for"
  /\ pos > Len(unmerged_crates)
  /\ Len(unmerged_crates) = Len(skipped_crates)
  /\ pc' = "done"
SpecGraphFair == SpecGraph /\ WF_vars(LoopStep) /\ WF_pc(NoProgressReturns)

\* ------------------------------------ generate_rust_project, with aliases

\* Crate ids of the inputs whose units declare aliases.
MaxAliasId == 2

\* Inputs whose units may rename the dependency with an id of AliasKeys,
\* whether or not they depend on it. The BTreeSet orders the units by their
\* alias maps first, so a unit with aliases iterates after those without.
AliasIds == 1..MaxAliasId
AliasUnitChoices == [deps : SUBSET AliasIds, aliases : AliasMaps]

InitAlias ==
  /\ \E U \in SUBSET AliasIds : \E f \in [U -> AliasUnitChoices] :
        crates = GraphInput(U, f)
  /\ unmerged_crates = BTreeSetIter(crates)
  /\ skipped_crates = <<>>
  /\ merged_crates_index = EmptyIndex
  /\ project_crates = <<>>
  /\ pos = 1
  /\ pc = "while"
  /\ result = "none"
  /\ cycles = <<>>
  /\ placed = <<>>
  /\ AqueryIdle
  /\ PipelineIdle
  /\ ConsIdle

SpecAlias == InitAlias /\ [][NextGraph]_vars

\* ------------------------------------------- consolidate_crate_specs, run

\* Number of raw specs handed to one consolidation.
MaxSpecs == 3

\* Raw specs of the consolidation runs: two unit ids, the display names and
\* owning targets of the repository's tests, and binary, rlib and lib kinds.
ConsIds == {1, 2}
ConsNames == {"mylib", "mylib_test"}
ConsKinds == {"bin", "rlib", "lib"}
ConsTargets == {"//tools/rust_analyzer:gen_rust_project_lib",
                "//tools/rust_analyzer:gen_rust_project"}

RawSpecs ==
  { CrateSpec(id, name, kind, {}, NoAliases, <<"test", "debug_assertions">>,
              None, target, "2018") :
      id \in ConsIds, name \in ConsNames, kind \in ConsKinds,
      target \in ConsTargets }

InitCons ==
  /\ \E n \in 0..MaxSpecs : crate_specs \in [1..n -> RawSpecs]
  /\ consolidated_specs = EmptyIndex
  /\ cpos = 1
  /\ cpc = "for"
  /\ consolidated = {}
  /\ crates = {}
  /\ unmerged_crates = <<>>
  /\ skipped_crates = <<>>
  /\ merged_crates_index = EmptyIndex
  /\ project_crates = <<>>
  /\ pos = 1
  /\ pc = "idle"
  /\ result = "none"
  /\ cycles = <<>>
  /\ placed = <<>>
  /\ AqueryIdle
  /\ PipelineIdle

\* Loop body, `if let Some(existing)` branch: the spec is merged into the
\* accumulated spec of its crate_id.
ConsMerge ==
  /\ cpc = "for"
  /\ cpos <= Len(crate_specs)
  /\ crate_specs[cpos].crate_id \in DOMAIN consolidated_specs
  /\ consolidated_specs' = ConsolidateStep(consolidated_specs, crate_specs[cpos])
  /\ cpos' = cpos + 1
  /\ UNCHANGED <<crate_specs, cpc, consolidated>>
  /\ UNCHANGED gvars
  /\ UNCHANGED avars
  /\ UNCHANGED pvars

\* Loop body, else branch: the first spec of its crate_id is inserted.
ConsInsert ==
  /\ cpc = "for"
  /\ cpos <= Len(crate_specs)
  /\ crate_specs[cpos].crate_id \notin DOMAIN consolidated_specs
  /\ consolidated_specs' = ConsolidateStep(consolidated_specs, crate_specs[cpos])
  /\ cpos' = cpos + 1
  /\ UNCHANGED <<crate_specs, cpc, consolidated>>
  /\ UNCHANGED gvars
  /\ UNCHANGED avars
  /\ UNCHANGED pvars

\* Ok(consolidated_specs.into_values().collect())
ConsReturn ==
  /\ cpc = "for"
  /\ cpos > Len(crate_specs)
  /\ consolidated' = IntoValues(consolidated_specs)
  /\ cpc' = "done"
  /\ UNCHANGED <<crate_specs, consolidated_specs, cpos>>
  /\ UNCHANGED gvars
  /\ UNCHANGED avars
  /\ UNCHANGED pvars

NextCons ==
  \/ ConsMerge
  \/ ConsInsert
  \/ ConsReturn

SpecCons == InitCons /\ [][NextCons]_vars

\* ------------------- consolidate_crate_specs, the merged collection fields

\* Number of raw specs handed to one consolidation of SpecMerge.
MaxMergeSpecs == 2

\* proc_macro_dylib_path of the fastbuild and of the opt-exec configuration,
\* cut into pieces around the marker.
FastbuildDylib ==
  <<"bazel-out/k8-fastbuild/bin/myproc_macro/libmyproc_macro-12345.so">>
OptExecDylib ==
  <<"bazel-out/k8", "-opt-exec-", "F005BA11/bin/myproc_macro/libmyproc_macro-12345.so">>

\* Raw specs of one proc-macro crate per unit id, differing in their
\* dependency set, their cfg list (a Vec: any order, repeats allowed) and
\* their proc-macro artifact path.
MergeIds == {1, 2}
MergeDeps == {{}, {1}, {2}}
MergeCfgs == { <<"test">>, <<"test", "debug_assertions">>,
               <<"debug_assertions", "test">>, <<"test", "test">> }
MergeDylibs == {None, Some(FastbuildDylib), Some(OptExecDylib)}

MergeSpecs ==
  { CrateSpec(id, "myproc_macro", "proc-macro", deps, NoAliases, cfg, dylib,
              "//tools/rust_analyzer:gen_rust_project_proc_macro", "2018") :
      id \in MergeIds, deps \in MergeDeps, cfg \in MergeCfgs,
      dylib \in MergeDylibs }

InitMerge ==
  /\ \E n \in 0..MaxMergeSpecs : crate_specs \in [1..n -> MergeSpecs]
  /\ consolidated_specs = EmptyIndex
  /\ cpos = 1
  /\ cpc = "for"
  /\ consolidated = {}
  /\ crates = {}
  /\ unmerged_crates = <<>>
  /\ skipped_crates = <<>>
  /\ merged_crates_index = EmptyIndex
  /\ project_crates = <<>>
  /\ pos = 1
  /\ pc = "idle"
  /\ result = "none"
  /\ cycles = <<>>
  /\ placed = <<>>
  /\ AqueryIdle
  /\ PipelineIdle

SpecMerge == InitMerge /\ [][NextCons]_vars

\* ------------------- consolidate_crate_specs, the fields no rule merges

\* Number of raw specs handed to one consolidation of SpecFrame.
MaxFrameSpecs == 3

\* Raw specs that differ in the fields the merge branch never assigns. The
\* specs come in two editions of every such field, so that two specs of one
\* unit id either agree on all of them or differ in each; env, a BTreeMap, is
\* the sequence of its entries in key order.
FrameIds == {1, 2}
FrameEditions == {1, 2}
FrameKinds == {"bin", "rlib"}
FrameFieldsOf(edition) ==
  IF edition = 1
  THEN [ edition             |-> "2018",
         root_module         |-> "mylib.rs",
         is_workspace_member |-> TRUE,
         aliases             |-> NoAliases,
         source              |-> None,
         env                 |-> <<>>,
         target              |-> "x86_64-unknown-linux-gnu",
         build_file          |-> Some("/workspace/tools/rust_analyzer/BUILD.bazel") ]
  ELSE [ edition             |-> "2021",
         root_module         |-> "mylib_test.rs",
         is_workspace_member |-> FALSE,
         aliases             |-> [k \in {1} |-> "alias_x"],
         source              |-> Some([ exclude_dirs |-> <<"exclude">>,
                                        include_dirs |-> <<"include">> ]),
         env                 |-> << <<"CARGO_MANIFEST_DIR", "/workspace">> >>,
         target              |-> "aarch64-apple-darwin",
         build_file          |-> None ]

FrameSpec(id, kind, dylib, edition) ==
  LET f == FrameFieldsOf(edition)
  IN [ CrateSpec(id, IF kind = "bin" THEN "mylib_test" ELSE "mylib", kind, {},
                 f.aliases, <<"test", "debug_assertions">>, dylib,
                 "//tools/rust_analyzer:gen_rust_project_lib", f.edition)
       EXCEPT !.root_module = f.root_module,
              !.is_workspace_member = f.is_workspace_member,
              !.source = f.source,
              !.env = f.env,
              !.target = f.target,
              !.build_file = f.build_file ]

FrameSpecs ==
  { FrameSpec(id, kind, dylib, edition) :
      id \in FrameIds, kind \in FrameKinds, dylib \in MergeDylibs,
      edition \in FrameEditions }

InitFrame ==
  /\ \E n \in 0..MaxFrameSpecs : crate_specs \in [1..n -> FrameSpecs]
  /\ consolidated_specs = EmptyIndex
  /\ cpos = 1
  /\ cpc = "for"
  /\ consolidated = {}
  /\ GraphIdle
  /\ AqueryIdle
  /\ PipelineIdle

SpecFrame == InitFrame /\ [][NextCons]_vars

\* --------------------------------------------- parse_aquery_output_files

\* Number of actions in one aquery output.
MaxActions == 2

\* The aquery text, by what the two serde_json parses make of it: `value` is
\* what it parses to as a serde_json::Value ("invalid" when it is no JSON at
\* all), `keys` the members a JSON object has among those of AqueryOutput,
\* and `typed` whether these members have the shape of their field.
SchemaKeys == {"artifacts", "actions", "pathFragments", "targets"}
JsonValues == {"invalid", "null", "array", "object"}
AqueryText(value, keys, typed) == [value |-> value, keys |-> keys, typed |-> typed]

\* serde_json::from_str::<AqueryOutput>(aquery_stdout) is Ok: every field of
\* the struct is required, and each must deserialize.
Decodes(text) ==
  text.value = "object" /\ text.keys = SchemaKeys /\ text.typed

\* The two anyhow! messages of the map_err closure.
EmptyResultMessage ==
  "Aquery returned an empty result, are there any Rust targets in the specified paths?."
ParseFailedMessage == "Failed to parse aquery output as JSON"
DecodeMessageAlwaysParse(text) == ParseFailedMessage
DecodeMessage(text) ==
  IF text.value = "object" THEN EmptyResultMessage ELSE ParseFailedMessage

\* The messages of the `expect`s.
MissingTargetMessage == "internal consistency error in bazel output: missing target"
MissingArtifactMessage == "internal consistency error in bazel output: missing artifact"
MissingFragmentMessage == "internal consistency error in bazel output"

\* A path is the sequence of its components. The labels of path fragments
\* are relative components, so Utf8PathBuf::join appends.
JoinLeafFirst(path, label) == <<label>> \o path
Join(path, label) == Append(path, label)

\* struct PathFragment (its id is the key of the table).
PathFragment(label, parent_id) == [label |-> label, parent_id |-> parent_id]

\* path_from_fragments. `depth` is the number of frames on the call stack:
\* a chain of more frames than the table has fragments has met one fragment
\* twice and recurses without end, until the stack overflows.
PathOk(path) == [kind |-> "Ok", path |-> path]
PathPanic == [kind |-> "panic", path |-> <<>>]
PathOverflow == [kind |-> "overflow", path |-> <<>>]

RECURSIVE path_from_fragments(_, _, _)
path_from_fragments_or_empty(id, fragments, depth) ==
  IF id \notin DOMAIN fragments THEN PathOk(<<>>)
  ELSE IF depth > Cardinality(DOMAIN fragments) THEN PathOverflow
  ELSE LET path_fragment == fragments[id]
       IN IF path_fragment.parent_id # None
          THEN LET r == path_from_fragments(path_fragment.parent_id[1],
                                            fragments, depth + 1)
               IN IF r.kind = "Ok"
                  THEN PathOk(Join(r.path, path_fragment.label))
                  ELSE r
          ELSE PathOk(<<path_fragment.label>>)
path_from_fragments(id, fragments, depth) ==
  IF id \notin DOMAIN fragments THEN PathPanic
  ELSE IF depth > Cardinality(DOMAIN fragments) THEN PathOverflow
  ELSE LET path_fragment == fragments[id]
       IN IF path_fragment.parent_id # None
          THEN LET r == path_from_fragments(path_fragment.parent_id[1],
                                            fragments, depth + 1)
               IN IF r.kind = "Ok"
                  THEN PathOk(Join(r.path, path_fragment.label))
                  ELSE r
          ELSE PathOk(<<path_fragment.label>>)

\* execution_root.join(path)
ExecutionRoot == "/execroot"
ExecJoin(path) == <<ExecutionRoot>> \o path

\* output_files.entry(target).or_default()
EntryEmptied(map, target) ==
  [k \in DOMAIN map \cup {target} |-> IF k = target THEN <<>> ELSE map[k]]
EntryOrDefault(map, target) ==
  [k \in DOMAIN map \cup {target} |-> IF k \in DOMAIN map THEN map[k] ELSE <<>>]

\* struct Artifact, struct Action (an artifact's id is the key of its table).
Artifact(path_fragment_id) == [path_fragment_id |-> path_fragment_id]
Action(target_id, output_ids) == [target_id |-> target_id, output_ids |-> output_ids]

\* Inputs. Fragment, artifact and target ids, the label of each fragment and
\* of each target; a parent link is absent or names any fragment id.
FragIds == {1, 2, 3}
SmallFragIds == {1, 2}
ArtifactIds == {1, 2}
TargetIds == {1, 2}
FragLabel(id) == <<"a", "b", "c">>[id]
TargetLabel(id) == <<"//tools/rust_analyzer:gen_rust_project_lib",
                     "//tools/rust_analyzer:gen_rust_project">>[id]
ParentChoices(ids) == {None} \cup {Some(p) : p \in ids}
FragmentTable(D, parent) == [id \in D |-> PathFragment(FragLabel(id), parent[id])]
ActionChoices ==
  { Action(t, o) : t \in TargetIds, o \in {<<>>, <<1>>, <<1, 2>>, <<2, 1>>} }

\* The disk holds the resolved paths of the fragments of E.
DiskOf(E, fragments) ==
  { ExecJoin(path_from_fragments(id, fragments, 1).path) :
      id \in {f \in E : path_from_fragments(f, fragments, 1).kind = "Ok"} }

AqueryStart ==
  /\ output_files = EmptyIndex
  /\ apos = 1
  /\ opos = 1
  /\ apc = "decode"
  /\ aresult = "none"
  /\ amessage = None
  /\ skipped_files = <<>>

\* A text that does not decode: no JSON, a JSON value that is no object, an
\* object lacking a member, or an object with an ill-shaped member.
InitUndecodable ==
  /\ \E value \in JsonValues : \E keys \in SUBSET SchemaKeys : \E typed \in BOOLEAN :
        /\ value # "object" => (keys = {} /\ ~typed)
        /\ ~Decodes(AqueryText(value, keys, typed))
        /\ aquery_stdout = AqueryText(value, keys, typed)
  /\ artifacts = EmptyIndex
  /\ path_fragments = EmptyIndex
  /\ targets = EmptyIndex
  /\ actions = <<>>
  /\ disk = {}

\* One action with one output, over every fragment table on FragIds.
InitFragments ==
  /\ aquery_stdout = AqueryText("object", SchemaKeys, TRUE)
  /\ \E D \in SUBSET FragIds : \E parent \in [D -> ParentChoices(FragIds)] :
        path_fragments = FragmentTable(D, parent)
  /\ \E f \in FragIds : artifacts = [a \in {1} |-> Artifact(f)]
  /\ targets = [t \in {1} |-> TargetLabel(t)]
  /\ actions = <<Action(1, <<1>>)>>
  /\ \E E \in {{}, FragIds} : disk = DiskOf(E, path_fragments)

\* Up to MaxActions actions over tables on the small id sets, with every
\* choice of the files on disk. Fragment 1 is a root and fragment 2 a root or
\* a child of 1, and each may be absent.
InitActions ==
  /\ aquery_stdout = AqueryText("object", SchemaKeys, TRUE)
  /\ \E D \in SUBSET SmallFragIds : \E parent \in ParentChoices({1}) :
        path_fragments =
          FragmentTable(D, [id \in D |-> IF id = 1 THEN None ELSE parent])
  /\ \E D \in {{1}, ArtifactIds} : \E f \in [D -> SmallFragIds] :
        artifacts = [a \in D |-> Artifact(f[a])]
  /\ \E D \in {{1}, TargetIds} : targets = [t \in D |-> TargetLabel(t)]
  /\ \E n \in 0..MaxActions : actions \in [1..n -> ActionChoices]
  /\ \E E \in SUBSET SmallFragIds : disk = DiskOf(E, path_fragments)

InitAquery ==
  /\ InitUndecodable \/ InitFragments \/ InitActions
  /\ AqueryStart
  /\ GraphIdle
  /\ ConsIdle
  /\ PipelineIdle

\* serde_json::from_str fails: the function returns the Err built by map_err.
DecodeFail ==
  /\ apc = "decode"
  /\ ~Decodes(aquery_stdout)
  /\ aresult' = "Err"
  /\ amessage' = Some(DecodeMessage(aquery_stdout))
  /\ apc' = "done"
  /\ UNCHANGED <<aquery_stdout, artifacts, path_fragments, targets, actions,
                 disk, output_files, apos, opos, skipped_files>>
  /\ UNCHANGED gvars
  /\ UNCHANGED cvars
  /\ UNCHANGED pvars

\* The text decodes: the three tables are collected and the loop starts.
DecodeOk ==
  /\ apc = "decode"
  /\ Decodes(aquery_stdout)
  /\ apc' = "action"
  /\ apos' = 1
  /\ UNCHANGED <<aquery_stdout, artifacts, path_fragments, targets, actions,
                 disk, output_files, opos, aresult, amessage, skipped_files>>
  /\ UNCHANGED gvars
  /\ UNCHANGED cvars
  /\ UNCHANGED pvars

\* Head of the body of `for action in out.actions`: the target lookup and
\* the entry of its label.
ActionTarget ==
  /\ apc = "action"
  /\ apos <= Len(actions)
  /\ LET action == actions[apos]
     IN IF action.target_id \notin DOMAIN targets
        THEN /\ aresult' = "panic"
             /\ amessage' = Some(MissingTargetMessage)
             /\ apc' = "done"
             /\ UNCHANGED <<output_files, opos>>
        ELSE /\ output_files' =
                  EntryOrDefault(output_files, targets[action.target_id])
             /\ opos' = 1
             /\ apc' = "output"
             /\ UNCHANGED <<aresult, amessage>>
  /\ UNCHANGED <<aquery_stdout, artifacts, path_fragments, targets, actions,
                 disk, apos, skipped_files>>
  /\ UNCHANGED gvars
  /\ UNCHANGED cvars
  /\ UNCHANGED pvars

\* Body of `for output_id in action.output_ids`.
OutputStep ==
  /\ apc = "output"
  /\ opos <= Len(actions[apos].output_ids)
  /\ LET output_id == actions[apos].output_ids[opos]
         target == targets[actions[apos].target_id]
     IN IF output_id \notin DOMAIN artifacts
        THEN /\ aresult' = "panic"
             /\ amessage' = Some(MissingArtifactMessage)
             /\ apc' = "done"
             /\ UNCHANGED <<output_files, opos, skipped_files>>
        ELSE LET r == path_from_fragments(artifacts[output_id].path_fragment_id,
                                          path_fragments, 1)
                 path == ExecJoin(r.path)
             IN IF r.kind # "Ok"
                THEN /\ aresult' = r.kind
                     /\ amessage' = IF r.kind = "panic"
                                    THEN Some(MissingFragmentMessage) ELSE None
                     /\ apc' = "done"
                     /\ UNCHANGED <<output_files, opos, skipped_files>>
                ELSE /\ IF path \in disk
                        THEN /\ output_files' =
                                  [output_files EXCEPT ![target] = Append(@, path)]
                             /\ UNCHANGED skipped_files
                        ELSE /\ skipped_files' = Append(skipped_files, path)
                             /\ UNCHANGED output_files
                     /\ opos' = opos + 1
                     /\ UNCHANGED <<aresult, amessage, apc>>
  /\ UNCHANGED <<aquery_stdout, artifacts, path_fragments, targets, actions,
                 disk, apos>>
  /\ UNCHANGED gvars
  /\ UNCHANGED cvars
  /\ UNCHANGED pvars

\* The outputs of the action are exhausted: next action.
ActionEnd ==
  /\ apc = "output"
  /\ opos > Len(actions[apos].output_ids)
  /\ apos' = apos + 1
  /\ apc' = "action"
  /\ UNCHANGED <<aquery_stdout, artifacts, path_fragments, targets, actions,
                 disk, output_files, opos, aresult, amessage, skipped_files>>
  /\ UNCHANGED gvars
  /\ UNCHANGED cvars
  /\ UNCHANGED pvars

\* The actions are exhausted: Ok(output_files).
ReturnOk ==
  /\ apc = "action"
  /\ apos > Len(actions)
  /\ aresult' = "Ok"
  /\ apc' = "done"
  /\ UNCHANGED <<aquery_stdout, artifacts, path_fragments, targets, actions,
                 disk, output_files, apos, opos, amessage, skipped_files>>
  /\ UNCHANGED gvars
  /\ UNCHANGED cvars
  /\ UNCHANGED pvars

NextAquery ==
  \/ DecodeFail
  \/ DecodeOk
  \/ ActionTarget
  \/ OutputStep
  \/ ActionEnd
  \/ ReturnOk

SpecAquery == InitAquery /\ [][NextAquery]_vars

\* ------------------------- lib.rs: write_rust_project, discover_project

\* The target labels in ascending string order: the key order of the
\* BTreeMap returned by parse_aquery_output_files.
LabelOrder == <<TargetLabel(2), TargetLabel(1)>>

\* `for (label, files) in crate_spec_files { for file in files`: the pairs
\* in the order the two loops visit them.
RECURSIVE FilesInOrder(_, _)
FilesInOrder(map, n) ==
  IF n = 0 THEN <<>>
  ELSE FilesInOrder(map, n - 1) \o
       (IF LabelOrder[n] \in DOMAIN map
        THEN [k \in 1..Len(map[LabelOrder[n]]) |->
                [label |-> LabelOrder[n], file |-> map[LabelOrder[n]][k]]]
        ELSE <<>>)

\* label_to_build_file: both labels are of the package tools/rust_analyzer
\* of the main repository, whose BUILD.bazel exists in the workspace.
label_to_build_file(label) == Some("/workspace/tools/rust_analyzer/BUILD.bazel")

\* What a crate spec file holds: a file that cannot be opened, one that does
\* not deserialize, or the JSON of a CrateSpec.
PipeIds == {1, 2}
Unopenable == [read |-> "open fails"]
Undeserializable == [read |-> "deserialize fails"]
SpecFile(spec) == [read |-> "Ok", spec |-> spec]
FileContents ==
  {Unopenable, Undeserializable} \cup
  {SpecFile(GraphUnit(id, deps, NoAliases)) : id \in PipeIds, deps \in SUBSET PipeIds}

\* The messages of the failures.
CommandFailedMessage == "No such file or directory (os error 2)"
OpenFailedMessage == "Failed to open file"
DeserializeFailedMessage == "Failed to deserialize file"
RunfileFailedMessage == "runfile failed"
MissingKeyMessage == "key not found in toolchain_info"
NoProgressMessage == "Failed to make progress on building crate dependency graph"
RemoveFailedMessage == "Unexpected error removing old rust-project.json"
WriteFailedMessage == "Permission denied (os error 13)"

\* struct RustProject, and the two results discover_project builds.
RustProject(project) ==
  [ sysroot     |-> Some("sysroot"),
    sysroot_src |-> Some("sysroot_src"),
    crates      |-> project,
    runnables   |-> <<"check", "testOne">> ]
HardCodedBuildfile == "/Users/bogdan/Coding/rules_rust/BUILD.bazel"
Finished(project) ==
  [kind |-> "finished", buildfile |-> HardCodedBuildfile, project |-> project]
Error(message) == [kind |-> "error", error |-> message, source |-> None]

\* What the file at rust_project_path holds: the project of an earlier run,
\* the project rendered by this run, or what a failed write left of it.
OldFile == [by |-> "an earlier run", text |-> RustProject(<<>>)]
NewFile(project) == [by |-> "this run", text |-> project]
TruncatedFile == [by |-> "a failed write", text |-> RustProject(<<>>)]

\* A call fails while the entry point runs. A returned Err leaves
\* write_rust_project through `?` and becomes DiscoverProject::Error in
\* discover_project; a panic or a stack overflow unwinds through both.
Fail(kind, message) ==
  /\ stage' = "done"
  /\ error' = message
  /\ IF entry = "discover" /\ kind = "Err"
     THEN /\ outcome' = "returned"
          /\ discover' = Some(Error(message[1]))
     ELSE /\ outcome' = kind
          /\ UNCHANGED discover

\* The entry point is called: an aquery text with its tables and its disk,
\* and a rust-project.json that is absent or left by an earlier run.
InitPipelineTables ==
  /\ aquery_stdout = AqueryText("object", SchemaKeys, TRUE)
  /\ \E D \in SUBSET SmallFragIds : \E parent \in [D -> ParentChoices(SmallFragIds)] :
        path_fragments = FragmentTable(D, parent)
  /\ \E D \in {{1}, ArtifactIds} : artifacts = [a \in D |-> Artifact(a)]
  /\ \E D \in {{1}, TargetIds} : targets = [t \in D |-> TargetLabel(t)]
  /\ actions = <<Action(1, <<1>>), Action(2, <<2>>)>>
  /\ \E E \in SUBSET SmallFragIds : disk = DiskOf(E, path_fragments)

InitPipeline ==
  /\ InitUndecodable \/ InitPipelineTables
  /\ output_files = EmptyIndex
  /\ apos = 1
  /\ opos = 1
  /\ apc = "idle"
  /\ aresult = "none"
  /\ amessage = None
  /\ skipped_files = <<>>
  /\ GraphIdle
  /\ ConsIdle
  /\ entry \in {"write", "discover"}
  /\ stage = "command"
  /\ crate_spec_files = <<>>
  /\ lpos = 1
  /\ loaded = <<>>
  /\ rust_project_json \in {None, Some(OldFile)}
  /\ fs_calls = <<>>
  /\ outcome = "none"
  /\ error = None
  /\ discover = None

\* get_crate_specs: Command::output() and String::from_utf8. A bazel that
\* cannot be run, or an output that is no UTF-8, is an Err; otherwise
\* parse_aquery_output_files is called on the text.
RunAquery ==
  /\ stage = "command"
  /\ \/ /\ Fail("Err", Some(CommandFailedMessage))
        /\ UNCHANGED apc
     \/ /\ stage' = "aquery"
        /\ apc' = "decode"
        /\ UNCHANGED <<outcome, error, discover>>
  /\ UNCHANGED <<aquery_stdout, artifacts, path_fragments, targets, actions,
                 disk, output_files, apos, opos, aresult, amessage, skipped_files>>
  /\ UNCHANGED <<entry, crate_spec_files, lpos, loaded, rust_project_json, fs_calls>>
  /\ UNCHANGED gvars
  /\ UNCHANGED cvars

\* parse_aquery_output_files did not return Ok: `?` hands its Err on, a panic
\* or an overflow goes on unwinding.
AqueryFailed ==
  /\ stage = "aquery"
  /\ apc = "done"
  /\ aresult # "Ok"
  /\ Fail(aresult, amessage)
  /\ UNCHANGED <<entry, crate_spec_files, lpos, loaded, rust_project_json, fs_calls>>
  /\ UNCHANGED gvars
  /\ UNCHANGED cvars
  /\ UNCHANGED avars

\* parse_aquery_output_files returned Ok(crate_spec_files): the loops start.
LoadStart ==
  /\ stage = "aquery"
  /\ apc = "done"
  /\ aresult = "Ok"
  /\ crate_spec_files' = FilesInOrder(output_files, Len(LabelOrder))
  /\ lpos' = 1
  /\ loaded' = <<>>
  /\ stage' = "load"
  /\ UNCHANGED <<entry, rust_project_json, fs_calls, outcome, error, discover>>
  /\ UNCHANGED gvars
  /\ UNCHANGED cvars
  /\ UNCHANGED avars

\* Body of the loops: the file is opened and deserialized, its build_file is
\* set from its label, and it is pushed.
LoadFile ==
  /\ stage = "load"
  /\ lpos <= Len(crate_spec_files)
  /\ \E content \in FileContents :
       IF content.read = "Ok"
       THEN /\ loaded' =
                 Append(loaded,
                        [content.spec EXCEPT !.build_file =
                           label_to_build_file(crate_spec_files[lpos].label)])
            /\ lpos' = lpos + 1
            /\ UNCHANGED <<stage, outcome, error, discover>>
       ELSE /\ Fail("Err", Some(IF content = Unopenable THEN OpenFailedMessage
                                ELSE DeserializeFailedMessage))
            /\ UNCHANGED <<loaded, lpos>>
  /\ UNCHANGED <<entry, crate_spec_files, rust_project_json, fs_calls>>
  /\ UNCHANGED gvars
  /\ UNCHANGED cvars
  /\ UNCHANGED avars

\* The files are exhausted: consolidate_crate_specs(crates) is called.
ConsolidateStart ==
  /\ stage = "load"
  /\ lpos > Len(crate_spec_files)
  /\ stage' = "consolidate"
  /\ crate_specs' = loaded
  /\ consolidated_specs' = EmptyIndex
  /\ cpos' = 1
  /\ cpc' = "for"
  /\ UNCHANGED consolidated
  /\ UNCHANGED <<entry, crate_spec_files, lpos, loaded, rust_project_json,
                 fs_calls, outcome, error, discover>>
  /\ UNCHANGED gvars
  /\ UNCHANGED avars

\* lib.rs generate_rust_project after get_crate_specs: the toolchain runfile
\* is located, read and parsed (each an Err when it fails), its two keys are
\* indexed (a panic when one is missing), and
\* rust_project::generate_rust_project is called on the consolidated set.
GraphStart ==
  /\ stage = "consolidate"
  /\ cpc = "done"
  /\ \/ /\ Fail("Err", Some(RunfileFailedMessage))
        /\ UNCHANGED gvars
     \/ /\ Fail("panic", Some(MissingKeyMessage))
        /\ UNCHANGED gvars
     \/ /\ stage' = "graph"
        /\ crates' = consolidated
        /\ unmerged_crates' = BTreeSetIter(consolidated)
        /\ skipped_crates' = <<>>
        /\ merged_crates_index' = EmptyIndex
        /\ project_crates' = <<>>
        /\ pos' = 1
        /\ pc' = "while"
        /\ UNCHANGED <<result, cycles, placed>>
        /\ UNCHANGED <<outcome, error, discover>>
  /\ UNCHANGED <<entry, crate_spec_files, lpos, loaded, rust_project_json, fs_calls>>
  /\ UNCHANGED cvars
  /\ UNCHANGED avars

\* rust_project::generate_rust_project did not return Ok.
GraphFailed ==
  /\ stage = "graph"
  /\ pc = "done"
  /\ result # "Ok"
  /\ Fail(result, Some(NoProgressMessage))
  /\ UNCHANGED <<entry, crate_spec_files, lpos, loaded, rust_project_json, fs_calls>>
  /\ UNCHANGED gvars
  /\ UNCHANGED cvars
  /\ UNCHANGED avars

\* write_rust_project: the project is there, rust_project::write_rust_project
\* first removes the old file. A file that is not there is fine; any other
\* error is returned.
WriteRemoveUnguarded ==
  /\ entry = "write"
  /\ stage = "graph"
  /\ pc = "done"
  /\ fs_calls' = Append(fs_calls, "remove_file")
  /\ \/ /\ rust_project_json' = None
        /\ stage' = "write"
        /\ UNCHANGED <<outcome, error, discover>>
     \/ /\ rust_project_json # None
        /\ Fail("Err", Some(RemoveFailedMessage))
        /\ UNCHANGED rust_project_json
  /\ UNCHANGED <<entry, crate_spec_files, lpos, loaded>>
  /\ UNCHANGED gvars
  /\ UNCHANGED cvars
  /\ UNCHANGED avars
WriteRemove ==
  /\ entry = "write"
  /\ stage = "graph"
  /\ pc = "done"
  /\ result = "Ok"
  /\ fs_calls' = Append(fs_calls, "remove_file")
  /\ \/ /\ rust_project_json' = None
        /\ stage' = "write"
        /\ UNCHANGED <<outcome, error, discover>>
     \/ /\ rust_project_json # None
        /\ Fail("Err", Some(RemoveFailedMessage))
        /\ UNCHANGED rust_project_json
  /\ UNCHANGED <<entry, crate_spec_files, lpos, loaded>>
  /\ UNCHANGED gvars
  /\ UNCHANGED cvars
  /\ UNCHANGED avars

\* The project is rendered and written; a failing write is returned and
\* leaves no file or part of one.
WriteFile ==
  /\ stage = "write"
  /\ fs_calls' = Append(fs_calls, "write")
  /\ \/ /\ rust_project_json' = Some(NewFile(RustProject(project_crates)))
        /\ stage' = "done"
        /\ outcome' = "Ok"
        /\ UNCHANGED <<error, discover>>
     \/ /\ rust_project_json' \in {None, Some(TruncatedFile)}
        /\ Fail("Err", Some(WriteFailedMessage))
  /\ UNCHANGED <<entry, crate_spec_files, lpos, loaded>>
  /\ UNCHANGED gvars
  /\ UNCHANGED cvars
  /\ UNCHANGED avars

\* discover_project: Ok(project) becomes DiscoverProject::Finished.
DiscoverFinished ==
  /\ entry = "discover"
  /\ stage = "graph"
  /\ pc = "done"
  /\ result = "Ok"
  /\ discover' = Some(Finished(RustProject(project_crates)))
  /\ outcome' = "returned"
  /\ stage' = "done"
  /\ UNCHANGED <<entry, crate_spec_files, lpos, loaded, rust_project_json,
                 fs_calls, error>>
  /\ UNCHANGED gvars
  /\ UNCHANGED cvars
  /\ UNCHANGED avars

NextPipeline ==
  \/ RunAquery
  \/ NextAquery
  \/ AqueryFailed
  \/ LoadStart
  \/ LoadFile
  \/ ConsolidateStart
  \/ NextCons
  \/ GraphStart
  \/ NextGraph
  \/ GraphFailed
  \/ WriteRemove
  \/ WriteFile
  \/ DiscoverFinished

SpecPipeline == InitPipeline /\ [][NextPipeline]_vars

\* ------------------------------------------- vocabulary of the graph claims

IdsOf(S) == {c.crate_id : c \in S}
UnitIds == IdsOf(crates)
SpecOf(S, id) == CHOOSE c \in S : c.crate_id = id

\* Dependencies of unit id that are units of S (the others are dangling in S).
DepsIn(S, id) == SpecOf(S, id).deps \cap IdsOf(S)

RECURSIVE ReachWithin(_, _, _)
ReachWithin(S, X, n) ==
  IF n = 0 THEN X
  ELSE ReachWithin(S, X \cup UNION {DepsIn(S, x) : x \in X}, n - 1)

\* Units of S reachable from id through one or more dependencies inside S.
Reachable(S, id) == ReachWithin(S, DepsIn(S, id), Cardinality(S))
OnCycle(S, id) == id \in Reachable(S, id)
CycleReachable(S, id) ==
  \E w \in {id} \cup Reachable(S, id) : OnCycle(S, w)

Acyclic == \A id \in UnitIds : ~OnCycle(crates, id)
Closed == \A c \in crates : c.deps \subseteq UnitIds

\* The simple dependency cycles of S: sequences of distinct units, each
\* depending on the next and the last on the first.
IsSimpleCycle(S, s) ==
  /\ Len(s) >= 1
  /\ \A i \in 1..Len(s) : s[i] \in IdsOf(S)
  /\ \A i, j \in 1..Len(s) : i # j => s[i] # s[j]
  /\ \A i \in 1..Len(s) : s[(i % Len(s)) + 1] \in SpecOf(S, s[i]).deps

SimpleCycles(S) ==
  { s \in UNION {[1..n -> IdsOf(S)] : n \in 1..Cardinality(S)} :
      IsSimpleCycle(S, s) }

\* 0-based output position of a placed unit, and its pushed Crate.
PosOf(id) == (CHOOSE i \in 1..Len(placed) : placed[i] = id) - 1
CrateOf(id) == project_crates[PosOf(id) + 1]

\* A logged cycle from the first occurrence of its last element up to, and
\* without, the repeat.
FirstOcc(c) == CHOOSE j \in 1..Len(c) :
                  c[j] = c[Len(c)] /\ \A i \in 1..(j - 1) : c[i] # c[Len(c)]
Segment(c) == SubSeq(c, FirstOcc(c), Len(c) - 1)
Rotations(s) ==
  { [i \in 1..Len(s) |-> s[((i + r - 1) % Len(s)) + 1]] : r \in 0..(Len(s) - 1) }

Remaining == Range(unmerged_crates)

\* ------------------------------------------------------------ the claims

\* C1: whenever generate_rust_project returns success, every entry of the
\* resolved dependency list of the crate at output position i has a crate
\* index strictly smaller than i.
C1_DepsPrecede ==
  result = "Ok" =>
    \A i \in 1..Len(project_crates) :
      \A k \in 1..Len(project_crates[i].deps) :
        project_crates[i].deps[k].crate_index < i - 1

C1_Witness ==
  /\ result = "Ok"
  /\ Len(project_crates) = 3
  /\ \E i \in 1..Len(project_crates) : Len(project_crates[i].deps) = 2

\* C2: for an acyclic input whose every dependency id is a unit of the set,
\* the run ends in success, the output holds every unit exactly once, a unit
\* precedes each unit depending on it, and for a unit u and a dependency d of
\* u exactly one resolved entry of u carries the output position of d.
C2_AcyclicOrdered ==
  (pc = "done" /\ Acyclic /\ Closed) =>
    /\ result = "Ok"
    /\ Len(project_crates) = Cardinality(crates)
    /\ Len(placed) = Cardinality(crates)
    /\ Range(placed) = UnitIds
    /\ \A u \in crates :
         /\ CrateOf(u.crate_id).display_name = u.display_name
         /\ \A d \in u.deps :
              /\ PosOf(d) < PosOf(u.crate_id)
              /\ Cardinality({k \in 1..Len(CrateOf(u.crate_id).deps) :
                    CrateOf(u.crate_id).deps[k].crate_index = PosOf(d)}) = 1

\* The chain of the spec: a, b depending on a, c depending on a and b.
C2_Witness ==
  /\ pc = "done"
  /\ result = "Ok"
  /\ \E a, b, c \in crates :
       /\ a.deps = {}
       /\ b.deps = {a.crate_id}
       /\ c.deps = {a.crate_id, b.crate_id}
       /\ b.crate_id < a.crate_id

\* C3: a unit with a dangling dependency (an id that is no unit of the set)
\* is still placed once its other dependencies are; the dangling id is left
\* out of its resolved list and the Graph Builder does not fail because of it.
\* With no dependency cycle among the units, nothing else can fail the run.
C3_DanglingTolerated ==
  (pc = "done" /\ Acyclic /\ ~Closed) =>
    /\ result = "Ok"
    /\ Range(placed) = UnitIds
    /\ \A u \in crates :
         Len(CrateOf(u.crate_id).deps) = Cardinality(u.deps \cap UnitIds)

\* C4 as claimed: when units of the input form a dependency cycle the run
\* fails, and for each such cycle some reported cycle contains all its units.
C4_WholeCycleReported ==
  (pc = "done" /\ ~Acyclic) =>
    /\ result = "Err"
    /\ \A s \in SimpleCycles(crates) :
         \E k \in 1..Len(cycles) : Range(s) \subseteq Range(cycles[k])

\* C4, amended: when units of the input form a dependency cycle no project is
\* ever returned and the run ends in failure; every unit of such a cycle is
\* the first element of a reported cycle; and when the input is exactly two
\* units depending on each other and on nothing else, two cycles are reported
\* and each contains both units.
C4_CycleFails ==
  ~Acyclic =>
    /\ result # "Ok"
    /\ pc = "done" =>
         /\ result = "Err"
         /\ \A v \in UnitIds : OnCycle(crates, v) =>
              \E k \in 1..Len(cycles) : cycles[k][1] = v
         /\ (\E x, y \in crates :
               /\ crates = {x, y}
               /\ x.crate_id # y.crate_id
               /\ x.deps = {y.crate_id}
               /\ y.deps = {x.crate_id})
            => /\ Len(cycles) = 2
               /\ \A k \in 1..Len(cycles) : Range(cycles[k]) = UnitIds

\* A cycle of two units beside a unit with a cycle of its own.
C4_Witness ==
  /\ pc = "done"
  /\ result = "Err"
  /\ Cardinality(crates) = 3
  /\ \E s \in SimpleCycles(crates) : Len(s) = 2
  /\ \E s \in SimpleCycles(crates) : Len(s) = 1

\* C5 as claimed: a reported cycle is the path slice from the first occurrence
\* of the repeated id to the repeat: it starts and ends with the same id.
C5_CycleIsSlice ==
  \A k \in 1..Len(cycles) : cycles[k][1] = cycles[k][Len(cycles[k])]

\* C5, amended: the cycle returned by detect_cycle started from a remaining
\* unit is the whole depth-first path from that unit followed by the repeated
\* id: it begins with the start unit, all its elements but the last are
\* distinct remaining units, each depends on the next, and the last element
\* repeats one of the earlier ones (not always the first).
C5_CycleIsWholePath ==
  \A k \in 1..Len(cycles) :
    LET c == cycles[k]
    IN /\ Len(c) >= 2
       /\ c[1] \in IdsOf(Remaining)
       /\ \A i, j \in 1..(Len(c) - 1) : i # j => c[i] # c[j]
       /\ \A i \in 1..(Len(c) - 1) :
            /\ c[i] \in IdsOf(Remaining)
            /\ c[i + 1] \in SpecOf(Remaining, c[i]).deps
       /\ \E j \in 1..(Len(c) - 1) : c[j] = c[Len(c)]

\* A reported cycle whose repeated id is not its first element.
C5_Witness ==
  /\ result = "Err"
  /\ \E k \in 1..Len(cycles) :
       /\ cycles[k][1] # cycles[k][Len(cycles[k])]
       /\ Len(cycles[k]) = 4

\* C6 as claimed: on no progress every dependency cycle among the remaining
\* units is the repeated segment of some emitted cycle diagnostic.
C6_EveryCycleReported ==
  result = "Err" =>
    \A s \in SimpleCycles(Remaining) :
      \E k \in 1..Len(cycles) : Segment(cycles[k]) \in Rotations(s)

\* C6, amended: on no progress one cycle diagnostic is emitted for each
\* remaining unit from which a dependency cycle among the remaining units can
\* be reached (the first one the depth-first search from it finds), in the
\* order of the remaining units, and none for the others; the repeated segment
\* of every diagnostic is a dependency cycle among the remaining units.
C6_OneCyclePerUnit ==
  result = "Err" =>
    LET starts == [k \in 1..Len(cycles) |-> cycles[k][1]]
        ids == [i \in 1..Len(unmerged_crates) |-> unmerged_crates[i].crate_id]
    IN /\ Range(starts) = {v \in IdsOf(Remaining) : CycleReachable(Remaining, v)}
       /\ \A i, j \in 1..Len(starts) : i # j => starts[i] # starts[j]
       /\ \A i, j \in 1..Len(starts) : i < j =>
            \E a, b \in 1..Len(ids) : a < b /\ ids[a] = starts[i] /\ ids[b] = starts[j]
       /\ \A k \in 1..Len(cycles) : IsSimpleCycle(Remaining, Segment(cycles[k]))

\* Two cycles sharing a unit, of which only one is ever reported.
C6_Witness ==
  /\ result = "Err"
  /\ Len(cycles) = 3
  /\ \E s \in SimpleCycles(Remaining) :
       \A k \in 1..Len(cycles) : Segment(cycles[k]) \notin Rotations(s)

\* C7: the no-progress failure is returned only when some unit still pending
\* reaches itself through the dependencies of pending units.
C7_NoProgressOnlyOnCycle ==
  result = "Err" => \E v \in IdsOf(Remaining) : OnCycle(Remaining, v)

\* ---------------------------------- vocabulary of the consolidation claims

\* The raw specs of the input that carry a given crate_id, by position.
GroupOf(id) == {i \in 1..Len(crate_specs) : crate_specs[i].crate_id = id}

\* The input in another order.
Reorderings(specs) ==
  { [i \in 1..Len(specs) |-> specs[f[i]]] :
      f \in {g \in [1..Len(specs) -> 1..Len(specs)] :
                \A i, j \in 1..Len(specs) : i # j => g[i] # g[j]} }

\* The group of id is one rlib spec and one or more bin specs.
LibWithBins(id, lib) ==
  /\ lib \in GroupOf(id)
  /\ crate_specs[lib].crate_type = "rlib"
  /\ Cardinality(GroupOf(id)) >= 2
  /\ \A i \in GroupOf(id) \ {lib} : crate_specs[i].crate_type = "bin"

\* C8: consolidating any permutation of the input list yields the identical
\* set of canonical specs, equal field by field.
C8_OrderIndependent ==
  cpc = "done" =>
    \A p \in Reorderings(crate_specs) : consolidate_crate_specs(p) = consolidated

\* C9: a library (rlib) spec consolidated with one or more binary specs of its
\* unit id, in any order, yields a single canonical spec of that id, with the
\* display name and the kind of the library spec.
C9_LibraryNameWins ==
  cpc = "done" =>
    \A id \in ConsIds : \A lib \in 1..Len(crate_specs) :
      LibWithBins(id, lib) =>
        /\ Cardinality({c \in consolidated : c.crate_id = id}) = 1
        /\ \A c \in consolidated : c.crate_id = id =>
             /\ c.display_name = crate_specs[lib].display_name
             /\ c.crate_type = crate_specs[lib].crate_type

\* A binary first, then the library under another name, then a binary again.
C9_Witness ==
  /\ cpc = "done"
  /\ Len(crate_specs) = 3
  /\ LibWithBins(crate_specs[1].crate_id, 2)
  /\ crate_specs[1].display_name # crate_specs[2].display_name
  /\ crate_specs[3].display_name # crate_specs[2].display_name

\* C10: a library (rlib) spec consolidated with binary specs of its unit id
\* that carry other owning build targets, in any order, yields a canonical
\* spec whose bazel_target is the library spec's.
C10_LibraryTargetWins ==
  cpc = "done" =>
    \A id \in ConsIds : \A lib \in 1..Len(crate_specs) :
      LibWithBins(id, lib) =>
        \A c \in consolidated : c.crate_id = id =>
          c.bazel_target = crate_specs[lib].bazel_target

\* C11: two specs of one unit id that differ only in their proc-macro artifact
\* path, one path holding the marker -opt-exec- and the other not, consolidate
\* in either order to one canonical spec whose path is the one with the marker.
C11_OptExecPathWins ==
  (cpc = "done" /\ Len(crate_specs) = 2) =>
    \A i, j \in 1..2 :
      ( /\ crate_specs[i].proc_macro_dylib_path = Some(OptExecDylib)
        /\ crate_specs[j].proc_macro_dylib_path = Some(FastbuildDylib)
        /\ crate_specs[j] =
             [crate_specs[i] EXCEPT !.proc_macro_dylib_path = Some(FastbuildDylib)] )
      => /\ Cardinality(consolidated) = 1
         /\ \A c \in consolidated :
              c.proc_macro_dylib_path = Some(OptExecDylib)

\* The marker path comes first and the fastbuild path second.
C11_Witness ==
  /\ cpc = "done"
  /\ Len(crate_specs) = 2
  /\ crate_specs[1].proc_macro_dylib_path = Some(OptExecDylib)
  /\ crate_specs[2] =
       [crate_specs[1] EXCEPT !.proc_macro_dylib_path = Some(FastbuildDylib)]

\* C12: for every unit id of the input, the dependency set of its canonical
\* spec is the union of the dependency sets of all raw specs of that id.
C12_DepsUnion ==
  cpc = "done" =>
    \A id \in IdsOf(Range(crate_specs)) :
      /\ \E c \in consolidated : c.crate_id = id
      /\ \A c \in consolidated : c.crate_id = id =>
           c.deps = UNION {crate_specs[i].deps : i \in GroupOf(id)}

\* Specs of one unit id with the disjoint dependency sets {A} and {B}.
C12_Witness ==
  /\ cpc = "done"
  /\ Len(crate_specs) = 2
  /\ crate_specs[1].crate_id = crate_specs[2].crate_id
  /\ crate_specs[1].deps = {1}
  /\ crate_specs[2].deps = {2}
  /\ \E c \in consolidated : c.deps = {1, 2}

\* C13: the returned set holds exactly one canonical spec for each distinct
\* unit id of the input, and no two of its elements share a unit id.
C13_OnePerUnitId ==
  cpc = "done" =>
    /\ IdsOf(consolidated) = IdsOf(Range(crate_specs))
    /\ \A a, b \in consolidated : a.crate_id = b.crate_id => a = b

\* Three raw specs over two unit ids.
C13_Witness ==
  /\ cpc = "done"
  /\ Len(crate_specs) = 3
  /\ Cardinality(IdsOf(Range(crate_specs))) = 2
  /\ Cardinality(consolidated) = 2

\* The cfg lists of the first n raw specs that carry id, concatenated in
\* encounter order, and the order-preserving de-duplication of a list.
RECURSIVE CfgsOf(_, _)
CfgsOf(id, n) ==
  IF n = 0 THEN <<>>
  ELSE CfgsOf(id, n - 1) \o
       (IF crate_specs[n].crate_id = id THEN crate_specs[n].cfg ELSE <<>>)

RECURSIVE FirstSeen(_)
FirstSeen(s) ==
  IF s = <<>> THEN <<>>
  ELSE LET r == FirstSeen(SubSeq(s, 1, Len(s) - 1))
       IN IF s[Len(s)] \in Range(r) THEN r ELSE Append(r, s[Len(s)])

\* C14: for every input list, the cfg list of each canonical spec has no
\* repeated entry and is the order-preserving de-duplication of the cfg lists
\* of the raw specs of its unit id, concatenated in encounter order.
C14_CfgDeduplicated ==
  cpc = "done" =>
    \A c \in consolidated :
      /\ \A i, j \in 1..Len(c.cfg) : i # j => c.cfg[i] # c.cfg[j]
      /\ c.cfg = FirstSeen(CfgsOf(c.crate_id, Len(crate_specs)))

\* ------------------------------------------ vocabulary of the Joiner claims

\* The fragment n parent links above id, 0 when the chain ends before or
\* leaves the table.
RECURSIVE Up(_, _)
Up(id, n) ==
  IF n = 0 THEN id
  ELSE LET below == Up(id, n - 1)
       IN IF below \in DOMAIN path_fragments
             /\ path_fragments[below].parent_id # None
          THEN path_fragments[below].parent_id[1]
          ELSE 0

FragSteps == 1..Cardinality(DOMAIN path_fragments)

\* The chain of parent links from id leaves the table / comes back to a
\* fragment it went through.
ChainLeavesTable(id) ==
  \/ id \notin DOMAIN path_fragments
  \/ \E n \in FragSteps : Up(id, n) # 0 /\ Up(id, n) \notin DOMAIN path_fragments
ChainCycles(id) ==
  \E n \in FragSteps : Up(id, n) # 0 /\ Up(Up(id, n), 1) \in {Up(id, k) : k \in 0..n}

\* A forest: every parent link names a fragment of the table and no fragment
\* is its own ancestor.
Forest ==
  \A id \in DOMAIN path_fragments : ~ChainLeavesTable(id) /\ ~ChainCycles(id)

FragOfLabel(label) ==
  CHOOSE id \in DOMAIN path_fragments : path_fragments[id].label = label

\* C15: on a fragment table that is a forest, path_from_fragments returns for
\* every fragment id of the table (it ends, with neither fault nor overflow)
\* the labels of the chain of parent links, the root's first and the
\* fragment's own last; and no step ever changes the table.
C15_PathRootFirst ==
  /\ [](Forest =>
         \A id \in DOMAIN path_fragments :
           LET r == path_from_fragments(id, path_fragments, 1)
           IN /\ r.kind = "Ok"
              /\ Len(r.path) >= 1
              /\ \A i \in 1..Len(r.path) :
                   \E f \in DOMAIN path_fragments : path_fragments[f].label = r.path[i]
              /\ r.path[Len(r.path)] = path_fragments[id].label
              /\ path_fragments[FragOfLabel(r.path[1])].parent_id = None
              /\ \A i \in 1..(Len(r.path) - 1) :
                   path_fragments[FragOfLabel(r.path[i + 1])].parent_id
                     = Some(FragOfLabel(r.path[i])))
  /\ [][path_fragments' = path_fragments]_vars

\* The chain a <- b <- c of the spec, resolved for an output that exists.
C15_Witness ==
  /\ aresult = "Ok"
  /\ DOMAIN path_fragments = FragIds
  /\ path_fragments[1].parent_id = None
  /\ path_fragments[2].parent_id = Some(1)
  /\ path_fragments[3].parent_id = Some(2)
  /\ \E t \in DOMAIN output_files :
       output_files[t] = <<ExecJoin(<<"a", "b", "c">>)>>

\* What the actions reference: action i names a target id, an output
\* artifact id or (through an artifact or a parent link) a fragment id that
\* its table lacks; some output of some action has a chain of parent links
\* that comes back on itself.
ActionInconsistent(i) ==
  \/ actions[i].target_id \notin DOMAIN targets
  \/ \E k \in 1..Len(actions[i].output_ids) :
       \/ actions[i].output_ids[k] \notin DOMAIN artifacts
       \/ ChainLeavesTable(artifacts[actions[i].output_ids[k]].path_fragment_id)
Inconsistent == \E i \in 1..Len(actions) : ActionInconsistent(i)
ReferencedCycle ==
  \E i \in 1..Len(actions) : \E k \in 1..Len(actions[i].output_ids) :
    /\ actions[i].output_ids[k] \in DOMAIN artifacts
    /\ ChainCycles(artifacts[actions[i].output_ids[k]].path_fragment_id)

InternalConsistencyMessages ==
  {MissingTargetMessage, MissingArtifactMessage, MissingFragmentMessage}

\* C16: when some action references a target id, an output artifact id or a
\* fragment id absent from its table, parse_aquery_output_files never returns
\* a mapping and ends in a hard failure (the panic of an internal consistency
\* error, unless a chain of parent links that never ends is met first),
\* whatever the disk holds and whatever actions were processed before.
C16_InconsistencyFails ==
  (Decodes(aquery_stdout) /\ Inconsistent) =>
    /\ aresult # "Ok"
    /\ apc = "done" =>
         /\ aresult \in {"panic", "overflow"}
         /\ ~ReferencedCycle =>
              /\ aresult = "panic"
              /\ amessage # None
              /\ amessage[1] \in InternalConsistencyMessages

\* The fault is met after an action that put an existing file in the mapping.
C16_Witness ==
  /\ aresult = "panic"
  /\ apos = 2
  /\ \E t \in DOMAIN output_files : Len(output_files[t]) >= 1

\* The existing files of action i, in the order of its output ids, and the
\* existing files of the first n actions whose target has the given label.
FilesOfAction(i) ==
  LET resolved == [k \in 1..Len(actions[i].output_ids) |->
                     ExecJoin(path_from_fragments(
                       artifacts[actions[i].output_ids[k]].path_fragment_id,
                       path_fragments, 1).path)]
      Exists(path) == path \in disk
  IN SelectSeq(resolved, Exists)

RECURSIVE FilesOfLabel(_, _)
FilesOfLabel(label, n) ==
  IF n = 0 THEN <<>>
  ELSE FilesOfLabel(label, n - 1) \o
       (IF targets[actions[n].target_id] = label THEN FilesOfAction(n) ELSE <<>>)

\* C17: on internally consistent input (every referenced id is in its table
\* and every referenced chain of parent links ends) the function succeeds;
\* the mapping has one entry for each target label that has an action, and
\* the entry lists the resolved paths (execution root joined with the fragment
\* path) that exist on disk, by action and then by position among the
\* action's output ids; a missing path is skipped, and a label whose outputs
\* are all missing keeps an empty list.
C17_ExistingFilesMapped ==
  (apc = "done" /\ Decodes(aquery_stdout) /\ ~Inconsistent /\ ~ReferencedCycle) =>
    /\ aresult = "Ok"
    /\ DOMAIN output_files =
         {targets[actions[i].target_id] : i \in 1..Len(actions)}
    /\ \A label \in DOMAIN output_files :
         output_files[label] = FilesOfLabel(label, Len(actions))
    /\ \A i \in 1..Len(skipped_files) : skipped_files[i] \notin disk

\* Two labels: one with an existing file, one whose only output is missing.
C17_Witness ==
  /\ aresult = "Ok"
  /\ skipped_files # <<>>
  /\ \E t, u \in DOMAIN output_files :
       /\ output_files[t] = <<>>
       /\ Len(output_files[u]) >= 1

\* C18: a text that does not decode to AqueryOutput always ends in a returned
\* failure with no action processed; the message is the empty-result one
\* exactly when the text parses as a JSON object and the failed-to-parse one
\* for every other text, and nothing else differs between the two cases.
C18_DecodeFailure ==
  ~Decodes(aquery_stdout) =>
    /\ apc \in {"idle", "decode", "done"}
    /\ output_files = EmptyIndex
    /\ skipped_files = <<>>
    /\ apos = 1
    /\ apc = "done" =>
         /\ aresult = "Err"
         /\ aquery_stdout.value = "object" => amessage = Some(EmptyResultMessage)
         /\ aquery_stdout.value # "object" => amessage = Some(ParseFailedMessage)

\* A JSON object that lacks a member of the schema, rejected.
C18_Witness ==
  /\ apc = "done"
  /\ aresult = "Err"
  /\ aquery_stdout.value = "object"
  /\ aquery_stdout.keys # SchemaKeys
  /\ amessage = Some(EmptyResultMessage)

\* ------------------------------------ vocabulary of the entry-point claims

\* The failure came from the Joiner, from spec loading, from the toolchain
\* lookup, from the Graph Builder.
JoinerFailed == aresult \notin {"none", "Ok"}
LoadFailed == error \in {Some(OpenFailedMessage), Some(DeserializeFailedMessage)}
ToolchainFailed == error \in {Some(RunfileFailedMessage), Some(MissingKeyMessage)}
GraphBuilderFailed == pc = "done" /\ result # "Ok"

ConsolidatorNeverRan == cpc = "idle" /\ consolidated = {}
GraphBuilderNeverRan == pc = "idle" /\ project_crates = <<>>
NothingEmitted ==
  /\ fs_calls = <<>>
  /\ rust_project_json \in {None, Some(OldFile)}
  /\ outcome # "Ok"
  /\ discover # None => discover[1].kind = "error"

\* C19: a failure of a stage aborts every later stage and nothing partial is
\* emitted: after a failure of the Joiner, of spec loading, of the toolchain
\* lookup or of the Graph Builder no later stage has run, no file call was
\* made on rust-project.json, whose content is what it was, and no project is
\* returned, also when the Graph Builder had placed crates before failing.
C19_NoPartialOutput ==
  /\ [](/\ JoinerFailed =>
            /\ crate_spec_files = <<>> /\ loaded = <<>>
            /\ ConsolidatorNeverRan /\ GraphBuilderNeverRan /\ NothingEmitted
        /\ LoadFailed =>
            ConsolidatorNeverRan /\ GraphBuilderNeverRan /\ NothingEmitted
        /\ ToolchainFailed => GraphBuilderNeverRan /\ NothingEmitted
        /\ GraphBuilderFailed => NothingEmitted)
  /\ [][fs_calls' = fs_calls => rust_project_json' = rust_project_json]_vars

\* write_rust_project returned the Graph Builder's failure after a crate had
\* been placed, and the rust-project.json of an earlier run is still there.
C19_Witness ==
  /\ entry = "write"
  /\ stage = "done"
  /\ outcome = "Err"
  /\ result = "Err"
  /\ placed # <<>>
  /\ rust_project_json = Some(OldFile)
  /\ fs_calls = <<>>

\* C20: every run of discover_project yields exactly one tagged result,
\* Finished with the produced project when generation succeeded and Error with
\* the failure's message when a stage failed (a decode fault, a missing
\* target, artifact or fragment id, a spec that does not load, a dependency
\* cycle); never Progress, and no fault ends the run without an Error result.
C20_OneTaggedResult ==
  (entry = "discover" /\ stage = "done") =>
    /\ discover # None
    /\ discover[1].kind \in {"finished", "error"}
    /\ discover[1].kind = "finished" =>
         /\ result = "Ok"
         /\ discover[1].project = RustProject(project_crates)
    /\ discover[1].kind = "error" =>
         /\ result # "Ok"
         /\ Some(discover[1].error) = error

\* The build files from which a discovery can be triggered. discover_project
\* takes no build file among its arguments, so a run of it is the discovery
\* triggered from any of them.
TriggerBuildFiles ==
  {"/workspace/BUILD.bazel", "/workspace/tools/rust_analyzer/BUILD.bazel"}

\* C21: the Finished result of discover_project carries the build file that
\* triggered the discovery: whichever build file triggered a discovery that
\* succeeds, the buildfile field of its result is that build file.
C21_BuildfileIsTrigger ==
  \A trigger \in TriggerBuildFiles :
     (entry = "discover" /\ discover # None /\ discover[1].kind = "finished")
       => discover[1].buildfile = trigger

\* The resolved entry of the placed unit u for its dependency d: the one
\* carrying the output position of d.
EntryOf(u, d) ==
  CHOOSE e \in Range(CrateOf(u).deps) : e.crate_index = PosOf(d)

\* C22: in the output of generate_rust_project, the name of the resolved
\* dependency entry of a placed unit u for its dependency d is u's alias for
\* d when u's alias map has the key d, and otherwise the display name of the
\* placed crate with id d.
C22_AliasOrDisplayName ==
  \A u \in Range(placed) : \A d \in SpecOf(crates, u).deps :
     /\ \E e \in Range(CrateOf(u).deps) : e.crate_index = PosOf(d)
     /\ EntryOf(u, d).name =
          IF d \in DOMAIN SpecOf(crates, u).aliases
          THEN SpecOf(crates, u).aliases[d]
          ELSE CrateOf(d).display_name

\* Unit 2 depends on unit 1 and calls it alias_y; the run returned the project
\* and the entry of 2 for 1 is named alias_y, not dep_a.
C22_Witness ==
  /\ pc = "done"
  /\ result = "Ok"
  /\ \E c \in crates :
       /\ c.crate_id = 2
       /\ c.deps = {1}
       /\ c.aliases = [k \in {1} |-> "alias_y"]
  /\ EntryOf(2, 1).name = "alias_y"
  /\ CrateOf(1).display_name = "dep_a"

\* C23: when an incoming spec of a library kind (any kind but binary) is
\* merged into the accumulated spec of its unit id, the accumulated display
\* name and kind become the incoming spec's; an incoming binary spec leaves
\* both as they were.
C23_LibraryKindOverwrites ==
  [][ConsMerge =>
       LET spec == crate_specs[cpos]
           before == consolidated_specs[spec.crate_id]
           after == consolidated_specs'[spec.crate_id]
       IN IF TargetKind(spec.crate_type) = "Lib"
          THEN /\ after.display_name = spec.display_name
               /\ after.crate_type = spec.crate_type
          ELSE /\ after.display_name = before.display_name
               /\ after.crate_type = before.crate_type]_vars

\* ----------------------------------- vocabulary of the frame claim (C24)

\* The fields of a CrateSpec that no merge rule covers.
FrameOf(c) ==
  [ edition             |-> c.edition,
    root_module         |-> c.root_module,
    is_workspace_member |-> c.is_workspace_member,
    aliases             |-> c.aliases,
    source              |-> c.source,
    env                 |-> c.env,
    target              |-> c.target,
    build_file          |-> c.build_file ]

\* Position in crate_specs of the first spec of a unit id.
FirstIndexOf(id) ==
  CHOOSE i \in 1..Len(crate_specs) :
    /\ crate_specs[i].crate_id = id
    /\ \A j \in 1..(i - 1) : crate_specs[j].crate_id # id

\* The path of a spec is there and holds the marker.
HasMarker(c) ==
  /\ c.proc_macro_dylib_path # None
  /\ OPT_PATH_COMPONENT \in Range(c.proc_macro_dylib_path[1])

\* Some spec of the unit id after its first one, among those the loop has
\* consumed, has a path with the marker.
LaterMarker(id) ==
  \E j \in (FirstIndexOf(id) + 1)..(cpos - 1) :
    crate_specs[j].crate_id = id /\ HasMarker(crate_specs[j])

FirstWins(id, c) ==
  /\ FrameOf(c) = FrameOf(crate_specs[FirstIndexOf(id)])
  /\ ~LaterMarker(id) =>
       c.proc_macro_dylib_path =
         crate_specs[FirstIndexOf(id)].proc_macro_dylib_path

\* C24: in consolidate_crate_specs the edition, root module, workspace-member
\* flag, aliases, source filter, env vars, target triple and build file of the
\* accumulated and of the canonical spec of a unit id are those of the first
\* spec of that id; so is the proc-macro path as long as no later spec of the
\* id brought a path with the marker, and merging a spec whose path lacks the
\* marker never changes the accumulated path.
C24_FirstEncounteredKept ==
  /\ [](\A id \in DOMAIN consolidated_specs :
          FirstWins(id, consolidated_specs[id]))
  /\ [](cpc = "done" => \A c \in consolidated : FirstWins(c.crate_id, c))
  /\ [][(ConsMerge /\ ~HasMarker(crate_specs[cpos])) =>
          consolidated_specs'[crate_specs[cpos].crate_id].proc_macro_dylib_path
            = consolidated_specs[crate_specs[cpos].crate_id].proc_macro_dylib_path]_vars

\* Three specs of one unit id were consolidated: the second differs from the
\* first in every field without a merge rule and brings the opt-exec path,
\* the third brings the fastbuild path again; the canonical spec has the
\* fields of the first and still the opt-exec path.
C24_Witness ==
  /\ cpc = "done"
  /\ Len(crate_specs) = 3
  /\ \A i \in 1..3 : crate_specs[i].crate_id = 1
  /\ crate_specs[1].edition = "2018"
  /\ crate_specs[2].edition = "2021"
  /\ crate_specs[3].edition = "2021"
  /\ crate_specs[1].proc_macro_dylib_path = Some(FastbuildDylib)
  /\ crate_specs[2].proc_macro_dylib_path = Some(OptExecDylib)
  /\ crate_specs[3].proc_macro_dylib_path = Some(FastbuildDylib)
  /\ \E c \in consolidated :
       /\ c.edition = "2018"
       /\ c.build_file # None
       /\ c.proc_macro_dylib_path = Some(OptExecDylib)

\* C25: when the chain of parent links from the requested id comes back on a
\* fragment it went through, path_from_fragments fails fast: the resolution
\* ends in a failure it raises itself before it has gone through more
\* fragments than the table holds, and the Joiner never ends in the overflow
\* of a chain followed without bound.
C25_CycleFailsFast ==
  /\ \A id \in DOMAIN path_fragments :
       ChainCycles(id) =>
         path_from_fragments(id, path_fragments, 1).kind = "panic"
  /\ aresult # "overflow"

\* The decimal text of an id, and whether a message holds a text.
IdText(id) == <<"1", "2", "3">>[id]
Mentions(message, text) ==
  \E i \in 1..(Len(message) - Len(text) + 1) :
    SubSeq(message, i, i + Len(text) - 1) = text

\* The first id on the chain of parent links from id that the table lacks.
FirstMissingOnChain(id) ==
  IF id \notin DOMAIN path_fragments THEN id
  ELSE Up(id, CHOOSE n \in FragSteps :
                /\ Up(id, n) # 0
                /\ Up(id, n) \notin DOMAIN path_fragments
                /\ \A k \in 0..(n - 1) : Up(id, k) \in DOMAIN path_fragments)

\* The id whose lookup raised the fault the Joiner ended with.
OffendingId ==
  IF actions[apos].target_id \notin DOMAIN targets
  THEN actions[apos].target_id
  ELSE IF actions[apos].output_ids[opos] \notin DOMAIN artifacts
       THEN actions[apos].output_ids[opos]
       ELSE FirstMissingOnChain(
              artifacts[actions[apos].output_ids[opos]].path_fragment_id)

\* C26: every internal-consistency fault raised by the Joiner or the path
\* resolver (a missing target id, artifact id or fragment id) surfaces a
\* failure whose message holds the offending id.
C26_FaultCarriesId ==
  aresult = "panic" =>
    /\ amessage # None
    /\ Mentions(amessage[1], IdText(OffendingId))

\* C27: generate_rust_project terminates on every input set: every run
\* reaches its return; a pass that goes on to another pass has placed a unit,
\* so that fewer units are pending and every unit is placed or pending; a pass
\* that placed none returns the no-progress failure; and on that path
\* detect_cycle from each remaining unit returns, with or without a cycle,
\* after a depth-first path no longer than the remaining units, whether the
\* dependencies are cyclic or name ids that are no units.
C27_Terminates ==
  /\ <>(pc = "done")
  /\ [][(pc = "for" /\ pos > Len(unmerged_crates)) =>
          \/ /\ pc' = "while"
             /\ Len(unmerged_crates') < Len(unmerged_crates)
             /\ Len(placed) + Len(unmerged_crates') = Cardinality(crates)
          \/ /\ pc' = "done"
             /\ result' = "Err"
             /\ Len(skipped_crates) = Len(unmerged_crates)]_vars
  /\ []((pc = "for" /\ pos > Len(unmerged_crates)) =>
          \A i \in 1..Len(unmerged_crates) :
            LET r == detect_cycle(unmerged_crates[i],
                                  CrateMap(unmerged_crates), <<>>)
            IN /\ r.some \in BOOLEAN
               /\ Len(r.cycle) <= Len(unmerged_crates) + 1)

\* The run returned the no-progress failure in its second pass; the remaining
\* units hold a dependency cycle and a unit with a dangling id.
C27_Witness ==
  /\ pc = "done"
  /\ result = "Err"
  /\ placed # <<>>
  /\ cycles # <<>>
  /\ \E c \in Remaining : c.deps \ UnitIds # {}

\* The layer of a unit of an acyclic input: the length of its longest chain
\* of dependencies (n bounds the chain by the number of units).
RECURSIVE LayerWithin(_, _)
LayerWithin(id, n) ==
  IF n = 0 \/ DepsIn(crates, id) = {} THEN 0
  ELSE LET below == {LayerWithin(d, n - 1) : d \in DepsIn(crates, id)}
       IN 1 + CHOOSE m \in below : \A k \in below : k <= m
Layer(id) == LayerWithin(id, Cardinality(crates))

\* C28: the output order of generate_rust_project is the layered order: a
\* pass places exactly the pending units whose dependencies were all placed
\* when the pass began, so in a returned project every unit of an earlier
\* layer has a smaller position than every unit of a later layer, whatever
\* the order in which the input set is iterated.
C28_LayeredOrder ==
  result = "Ok" =>
    \A u, v \in UnitIds : Layer(u) < Layer(v) => PosOf(u) < PosOf(v)

\* The remaining units from which detect_cycle finds a cycle, by position.
CycleStarts ==
  {i \in 1..Len(unmerged_crates) :
     detect_cycle(unmerged_crates[i], CrateMap(unmerged_crates), <<>>).some}

\* C29: on a no-progress pass generate_rust_project runs cycle detection from
\* every remaining unit and has emitted every cycle it found, and nothing
\* else, when it returns; no diagnostic is emitted before that pass or after
\* the return; and the caller gets one failure whose message is the fixed
\* summary, whatever units form the cycles.
C29_DiagnosticsThenSummary ==
  /\ [](result = "Err" =>
          /\ Len(cycles) = Cardinality(CycleStarts)
          /\ \A i \in CycleStarts :
               \E k \in 1..Len(cycles) :
                 cycles[k] = detect_cycle(unmerged_crates[i],
                                          CrateMap(unmerged_crates), <<>>).cycle
          /\ \A k \in 1..Len(cycles) : cycles[k][1] \in IdsOf(Remaining))
  /\ [](result # "Err" => cycles = <<>>)
  /\ [][result = "Err" => cycles' = cycles]_vars
  /\ []((stage = "done" /\ result = "Err") =>
          /\ error =
               Some("Failed to make progress on building crate dependency graph")
          /\ outcome = IF entry = "discover" THEN "returned" ELSE "Err"
          /\ entry = "discover" =>
               discover = Some(Error(
                 "Failed to make progress on building crate dependency graph")))
  /\ [][error # None => error' = error]_vars

\* discover_project returned the summary after two cycle diagnostics.
C29_Witness ==
  /\ entry = "discover"
  /\ stage = "done"
  /\ result = "Err"
  /\ Len(cycles) = 2
  /\ cycles[1] # cycles[2]
  /\ discover # None
  /\ discover[1].kind = "error"

====
